---- MODULE Spec2Model ----
(***************************************************************************)
(* A model of scott_guard.py, the Keep-to-ENEX converter: the lazy         *)
(* pipeline stream_json -> filter_stream -> batch -> build_enex of         *)
(* convert(), and the per-note rendering done by build_enex.               *)
(*                                                                         *)
(* A Python str is a sequence of one-character strings.                    *)
(***************************************************************************)
EXTENDS Integers, Sequences, FiniteSets, TLC

VARIABLES
    paths,      \* the input files, in enumeration order (argument of convert)
    cfg,        \* the other arguments of convert, and what kind of sink stdout is
    pos,        \* how many input files stream_json has consumed
    pc,         \* where convert is: batch, open, render, preamble, tree, close, done, failed
    count,      \* enumerate()'s counter of the for loop of convert
    taken,      \* how many records islice has handed out of the current chunk
    pending,    \* the record batch() pulled with next(chunk) and build_enex has yet to render (0: none)
    root,       \* the note children of the current en-export element
    target,     \* the destination bound to `target` in convert
    fs,         \* per destination: the batches that opened it, whether it is open, its text
    brokenAt,   \* the batch during which the stdout pipe broke (-1: it has not)
    error,      \* the exception propagating out of convert (none, read, pipe)
    docs,       \* history: the note children of each en-export element handed to the serializer
    chunks      \* history: per batch, the indices of the records pulled for it

vars == <<paths, cfg, pos, pc, count, taken, pending, root, target, fs,
          brokenAt, error, docs, chunks>>

----------------------------------------------------------------------------
(* str helpers *)

\* The character U+2026, one str element.
Ellipsis == "ellipsis"

\* The characters str.strip() and str.rstrip() remove by default.
Whitespace == {" ", "\n", "\t", "\r", "\f"}

Min(a, b) == IF a < b THEN a ELSE b

\* s[:n]
Take(s, n) == SubSeq(s, 1, Min(n, Len(s)))

\* s[n:]
Drop(s, n) == SubSeq(s, n + 1, Len(s))

\* The positions of s holding a character that is not one of chars.
Kept(s, chars) == {i \in 1..Len(s) : s[i] \notin chars}

lstrip(s, chars) ==
    IF Kept(s, chars) = {} THEN <<>>
    ELSE Drop(s, (CHOOSE i \in Kept(s, chars) : \A j \in Kept(s, chars) : i <= j) - 1)

rstrip(s, chars) ==
    IF Kept(s, chars) = {} THEN <<>>
    ELSE Take(s, CHOOSE i \in Kept(s, chars) : \A j \in Kept(s, chars) : j <= i)

strip(s, chars) == rstrip(lstrip(s, chars), chars)

startswith(s, prefix) == Len(s) >= Len(prefix) /\ Take(s, Len(prefix)) = prefix

\* sep.join(parts)
RECURSIVE join(_, _)
join(parts, sep) ==
    IF parts = <<>> THEN <<>>
    ELSE IF Len(parts) = 1 THEN parts[1]
    ELSE parts[1] \o sep \o join(Tail(parts), sep)

\* s.split('\n', 1)[0]
first_line(s) ==
    LET at == {i \in 1..Len(s) : s[i] = "\n"}
    IN  IF at = {} THEN s
        ELSE Take(s, (CHOOSE i \in at : \A j \in at : i <= j) - 1)

\* s.rsplit(' ', 1)[0]
rsplit_head(s) ==
    LET at == {i \in 1..Len(s) : s[i] = " "}
    IN  IF at = {} THEN s
        ELSE Take(s, (CHOOSE i \in at : \A j \in at : j <= i) - 1)

\* xml.sax.saxutils.escape, one character
escape_char(c) ==
    CASE c = "&" -> <<"&", "a", "m", "p", ";">>
      [] c = "<" -> <<"&", "l", "t", ";">>
      [] c = ">" -> <<"&", "g", "t", ";">>
      [] OTHER   -> <<c>>

\* The pieces of parts joined in order (the halves are done apart to keep the
\* evaluation shallow on long strings).
RECURSIVE ExpandChars(_)
ExpandChars(parts) ==
    IF parts = <<>> THEN <<>>
    ELSE IF Len(parts) = 1 THEN parts[1]
    ELSE ExpandChars(Take(parts, Len(parts) \div 2)) \o ExpandChars(Drop(parts, Len(parts) \div 2))

escape(s) == ExpandChars([i \in 1..Len(s) |-> escape_char(s[i])])

BR == <<"<", "b", "r", " ", "/", ">">>

\* s.replace('\n', '<br />')
replace_newlines(s) == ExpandChars([i \in 1..Len(s) |-> IF s[i] = "\n" THEN BR ELSE <<s[i]>>])

\* '\n\n---\n\n'
RULE == <<"\n", "\n", "-", "-", "-", "\n", "\n">>

\* '<br /><br />---\n\n'
BR_RULE == BR \o BR \o <<"-", "-", "-", "\n", "\n">>

\* '\n\n'
BLANK == <<"\n", "\n">>

----------------------------------------------------------------------------
(* build_enex: one note *)

MICRO == 1000000

\* strftime('%Y%m%dT%H%M%SZ') of the stamp: the day, the hour, the minute and the
\* second it falls in (the fraction of a second is not printed).
enex_datetime(usec) ==
    LET s == usec \div MICRO
    IN  <<s \div 86400, (s % 86400) \div 3600, (s % 3600) \div 60, s % 60>>

annotation_content(annotation) ==
    LET heading == IF annotation.title # <<>>
                   THEN <<"#", "#", " ">> \o annotation.title ELSE <<>>
        body == IF annotation.description # <<>>
                THEN <<">", " ">> \o annotation.description ELSE <<>>
        ref == IF annotation.url # <<>>
               THEN <<"[", "s", "o", "u", "r", "c", "e", "]", "(">> \o annotation.url \o <<")">>
               ELSE <<>>
    IN  join(SelectSeq(<<heading, body, ref>>, LAMBDA item : item # <<>>), BLANK)

list_item_content(list_item) ==
    LET item_text == rstrip(<<" ">> \o list_item.text, Whitespace)
        item_checked == IF list_item.isChecked THEN "x" ELSE " "
    IN  <<"-", " ", "[", item_checked, "]">> \o item_text

TITLE_MAX == 80
TITLE_SLICE == 79
TITLE_CUT == 78

\* title_snippet as it would be with len(first_line) >= 80 for its test.
title_snippet_cuts_at_limit(text_content) ==
    LET line == first_line(text_content)
        first_split == rsplit_head(Take(line, TITLE_SLICE))
    IN  IF Len(line) >= TITLE_MAX
        THEN (IF Len(first_split) > TITLE_CUT THEN Take(line, TITLE_CUT) ELSE first_split)
             \o <<" ", Ellipsis>>
        ELSE line

\* title: attempt 2 of 3: snippet from text_content
title_snippet(text_content) ==
    LET line == first_line(text_content)
        first_split == rsplit_head(Take(line, TITLE_SLICE))
    IN  IF Len(line) > TITLE_MAX
        THEN (IF Len(first_split) > TITLE_CUT THEN Take(line, TITLE_CUT) ELSE first_split)
             \o <<" ", Ellipsis>>
        ELSE line

HTTP == <<"h", "t", "t", "p">>

\* title: attempt 3 of 3: whether the singular annotation's title replaces the title
title_is_url(title) ==
    startswith(title, HTTP) /\ \A i \in DOMAIN strip(title, {" ", Ellipsis}) :
                                   strip(title, {" ", Ellipsis})[i] # " "

\* note_title as it would be if the annotation's title were tried for a title that
\* looks like a URL only, not for an empty one.
note_title_for_url_only(data, snippet_title) ==
    IF Len(data.annotations) = 1
       /\ data.annotations[1].title # <<>>
       /\ title_is_url(snippet_title)
    THEN data.annotations[1].title
    ELSE snippet_title

note_title(data, snippet_title) ==
    IF Len(data.annotations) = 1
       /\ data.annotations[1].title # <<>>
       /\ (snippet_title = <<>> \/ title_is_url(snippet_title))
    THEN data.annotations[1].title
    ELSE snippet_title

\* whether the text content only repeats the singular annotation
is_repetition(text_content, title, annotations) ==
    /\ Len(annotations) = 1
    /\ \/ text_content = annotations[1].url
       \/ title # <<>> /\ text_content = title \o <<"\n">> \o annotations[1].url

\* text_content as it stands after the checklist is added to it
text_with_list(data) ==
    LET text_content == replace_newlines(escape(strip(data.textContent, Whitespace)))
        list_content_text == join([i \in DOMAIN data.listContent |->
                                      escape(list_item_content(data.listContent[i]))], BLANK)
    IN  IF data.listContent # <<>>
        THEN IF text_content # <<>> THEN text_content \o RULE \o list_content_text
             ELSE list_content_text
        ELSE text_content

annotations_markdown(annotations) ==
    join([i \in DOMAIN annotations |-> escape(annotation_content(annotations[i]))], RULE)

merge_content(text_content, content_markdown) ==
    IF text_content # <<>>
    THEN IF content_markdown # <<>> THEN text_content \o BR_RULE \o content_markdown
         ELSE text_content
    ELSE content_markdown

\* Characters of the model's alphabet that no XML document may contain.
IllegalXmlChars == {"\f"}

Entities == {<<"&", "a", "m", "p", ";">>, <<"&", "l", "t", ";">>, <<"&", "g", "t", ";">>}

\* Whether ET.fromstring accepts the markup as the content of an en-note element.
\* The markup is escaped text and <br /> elements: no other element can be in it.
\* (No "<" or "&" is inside <br /> or inside an entity, so a scan from left to right
\* accepts exactly when every "<" opens <br />, every "&" opens an entity and no
\* character is illegal.)
well_formed(s) ==
    \A i \in 1..Len(s) :
        /\ s[i] \notin IllegalXmlChars
        /\ s[i] = "<" => startswith(Drop(s, i - 1), BR)
        /\ s[i] = "&" => \E e \in Entities : startswith(Drop(s, i - 1), e)

content_parses(content_markdown) == well_formed(content_markdown)

\* all_checked as it would be with any() for all().
all_checked_any(list_contents) == \E i \in DOMAIN list_contents : list_contents[i].isChecked

all_checked(list_contents) == \A i \in DOMAIN list_contents : list_contents[i].isChecked

note_tags_of(data, note_tags, import_tags) ==
    (IF import_tags THEN data.labels ELSE <<>>) \o note_tags

\* One pass of the loop of build_enex: the note element built from the record
\* `data` read from input file `file`, and whether its content parsed (the element
\* stays a child of the root) or not (the element is removed).
note_element(data, file, note_tags, import_tags) ==
    LET explicit == data.title
        stripped == strip(data.textContent, Whitespace)
        snippet == IF explicit = <<>> THEN title_snippet(stripped) ELSE explicit
        title == note_title(data, snippet)
        with_list == text_with_list(data)
        text_content == IF is_repetition(with_list, title, data.annotations)
                        THEN <<>> ELSE with_list
        content_markdown == merge_content(text_content,
                                          annotations_markdown(data.annotations))
        updated == enex_datetime(data.userEditedTimestampUsec)
    IN  [ parsed |-> content_parses(content_markdown),
          title |-> title,
          updated |-> updated,
          tags |-> note_tags_of(data, note_tags, import_tags),
          content |-> content_markdown,
          reminder_order |-> data.listContent # <<>>,
          reminder_done_time |-> IF data.listContent # <<>> /\ all_checked(data.listContent)
                                 THEN <<updated>> ELSE <<>>,
          source_url |-> IF Len(data.annotations) = 1 THEN data.annotations[1].url ELSE <<>>,
          takeout_file |-> file ]

----------------------------------------------------------------------------
(* stream_json, filter_stream, batch *)

\* only_tagged = set(only_tagged) if only_tagged else None: whether it is a set
tagged_active(only_tagged) == only_tagged.given /\ only_tagged.names # {}

\* filter_keeps as it would be if the loop over the labels looked for a label
\* outside the allowlist instead of one inside it.
filter_keeps_all_labels(data, c) ==
    IF c.only_pinned /\ ~data.isPinned THEN FALSE
    ELSE IF c.ignore_pinned /\ data.isPinned THEN FALSE
    ELSE IF c.only_archived /\ ~data.isArchived THEN FALSE
    ELSE IF c.ignore_archive /\ data.isArchived THEN FALSE
    ELSE IF tagged_active(c.only_tagged)
         THEN \A i \in DOMAIN data.labels : data.labels[i] \in c.only_tagged.names
    ELSE TRUE

\* One pass of the loop of filter_stream: whether the record is yielded.
filter_keeps(data, c) ==
    IF c.only_pinned /\ ~data.isPinned THEN FALSE
    ELSE IF c.ignore_pinned /\ data.isPinned THEN FALSE
    ELSE IF c.only_archived /\ ~data.isArchived THEN FALSE
    ELSE IF c.ignore_archive /\ data.isArchived THEN FALSE
    ELSE IF tagged_active(c.only_tagged)
         THEN \E i \in DOMAIN data.labels : data.labels[i] \in c.only_tagged.names
    ELSE TRUE

\* next() of the filtered stream once stream_json has consumed p files: the next
\* record filter_stream yields (item), the end of the input (stop), or the
\* exception of json.load on a file that cannot be read (raise).
RECURSIVE pull(_, _, _)
pull(files, c, p) ==
    IF p >= Len(files) THEN [kind |-> "stop", at |-> p]
    ELSE IF ~files[p + 1].readable THEN [kind |-> "raise", at |-> p + 1]
    ELSE IF filter_keeps(files[p + 1].data, c) THEN [kind |-> "item", at |-> p + 1]
    ELSE pull(files, c, p + 1)

\* next() of the chunk build_enex iterates: chain((item,), islice(iterator, size))
chunk_next ==
    IF pending # 0 THEN [kind |-> "item", at |-> pending]
    ELSE IF taken >= cfg.max_size THEN [kind |-> "stop", at |-> pos]
    ELSE pull(paths, cfg, pos)

----------------------------------------------------------------------------
(* convert *)

STDOUT == [kind |-> "-", n |-> 0]

\* The destination of batch number cnt.
dest_name(c, cnt) ==
    IF c.dest = "-" THEN STDOUT
    ELSE IF c.dest = "dir" THEN [kind |-> "dir", n |-> cnt]
    ELSE [kind |-> "file", n |-> 0]

NoFile == [writers |-> {}, open |-> FALSE, text |-> <<>>]

\* dest_path.open('w'): the file is created or truncated
opened(files, name, cnt) ==
    [n \in DOMAIN files \cup {name} |->
        IF n = name
        THEN [writers |-> (IF n \in DOMAIN files THEN files[n].writers ELSE {}) \cup {cnt},
              open |-> TRUE,
              text |-> <<>>]
        ELSE files[n]]

closed(files, name) ==
    [n \in DOMAIN files |-> IF n = name THEN [files[n] EXCEPT !.open = FALSE] ELSE files[n]]

\* The two lines build_enex writes before the tree.
PREAMBLE == 2

\* What a write of the preamble can do: how many of its lines reach the
\* destination, and whether the write raises BrokenPipeError.  Only a pipe breaks;
\* once it is broken, a write either raises again or stays in the buffer.
preamble_outcomes ==
    IF brokenAt >= 0 /\ target = STDOUT
    THEN {[delivered |-> 0, raised |-> TRUE], [delivered |-> 0, raised |-> FALSE]}
    ELSE {[delivered |-> PREAMBLE, raised |-> FALSE]}
         \cup (IF target = STDOUT /\ cfg.pipe
               THEN {[delivered |-> k, raised |-> TRUE] : k \in 0..(PREAMBLE - 1)}
               ELSE {})

\* What document.write can do: the whole tree reaches the destination (full), or
\* the pipe breaks after a part of it (part) or before any of it (none).
tree_outcomes ==
    IF brokenAt >= 0 /\ target = STDOUT THEN {"none"}
    ELSE {"full"} \cup (IF target = STDOUT /\ cfg.pipe THEN {"part", "none"} ELSE {})

\* The text of destination name with `delivered` lines of batch cnt's preamble added.
with_preamble(files, name, cnt, delivered) ==
    IF delivered = 0 THEN files
    ELSE [files EXCEPT ![name].text =
             Append(@, [batch |-> cnt, preamble |-> delivered, tree |-> "none", notes |-> <<>>])]

\* The text of destination name with batch cnt's tree (or a part of it) added.
with_tree(files, name, cnt, outcome, notes) ==
    LET text == files[name].text
    IN  IF outcome = "none" \/ text = <<>> \/ text[Len(text)].batch # cnt THEN files
        ELSE [files EXCEPT ![name].text[Len(text)] =
                 [@ EXCEPT !.tree = outcome,
                           !.notes = IF outcome = "full" THEN notes ELSE <<>>]]

\* batch as it would be if it yielded the rest of the chunk without the record it
\* pulled to see whether there is one.
batch_loses_first ==
    /\ pc = "batch"
    /\ LET r == pull(paths, cfg, pos)
       IN  /\ pos' = r.at
           /\ pc' = IF r.kind = "item" THEN "open"
                    ELSE IF r.kind = "stop" THEN "done" ELSE "failed"
           /\ pending' = 0
           /\ taken' = IF r.kind = "item" THEN 1 ELSE 0
           /\ chunks' = IF r.kind = "item" THEN Append(chunks, <<>>) ELSE chunks
           /\ error' = IF r.kind = "raise" THEN "read" ELSE error
    /\ UNCHANGED <<paths, cfg, count, root, target, fs, brokenAt, docs>>

\* for (count, json_chunk) in enumerate(batch(filtered_stream, max_size)):
\* batch() pulls the first record of the next chunk before it yields the chunk.
batch ==
    /\ pc = "batch"
    /\ LET r == pull(paths, cfg, pos)
       IN  /\ pos' = r.at
           /\ pc' = IF r.kind = "item" THEN "open"
                    ELSE IF r.kind = "stop" THEN "done" ELSE "failed"
           /\ pending' = IF r.kind = "item" THEN r.at ELSE 0
           /\ taken' = IF r.kind = "item" THEN 1 ELSE 0
           /\ chunks' = IF r.kind = "item" THEN Append(chunks, <<r.at>>) ELSE chunks
           /\ error' = IF r.kind = "raise" THEN "read" ELSE error
    /\ UNCHANGED <<paths, cfg, count, root, target, fs, brokenAt, docs>>

\* The try block of convert up to the call of build_enex, and the creation of the
\* root element there.
open_target ==
    /\ pc = "open"
    /\ target' = dest_name(cfg, count)
    /\ fs' = IF cfg.dest = "-" THEN fs ELSE opened(fs, dest_name(cfg, count), count)
    /\ root' = <<>>
    /\ pc' = "render"
    /\ UNCHANGED <<paths, cfg, pos, count, taken, pending, brokenAt, error, docs, chunks>>

\* build_enex_loop as it would be without root.remove(note).
build_enex_loop_keeps_unparsed ==
    /\ pc = "render"
    /\ LET r == chunk_next
           note == note_element(paths[r.at].data, r.at, cfg.tags, cfg.import_tags)
       IN  /\ pos' = r.at
           /\ pending' = 0
           /\ taken' = IF r.kind = "item" /\ pending = 0 THEN taken + 1 ELSE taken
           /\ chunks' = IF r.kind = "item" /\ pending = 0
                        THEN [chunks EXCEPT ![Len(chunks)] = Append(@, r.at)]
                        ELSE chunks
           /\ root' = IF r.kind = "item" THEN Append(root, note) ELSE root
           /\ docs' = IF r.kind = "stop" THEN Append(docs, root) ELSE docs
           /\ error' = IF r.kind = "raise" THEN "read" ELSE error
           /\ pc' = IF r.kind = "item" THEN "render"
                    ELSE IF r.kind = "stop" THEN "preamble" ELSE "close"
    /\ UNCHANGED <<paths, cfg, count, target, fs, brokenAt>>

\* for data in stream: one record pulled and rendered, or the end of the chunk, or
\* the exception of the read.
build_enex_loop ==
    /\ pc = "render"
    /\ LET r == chunk_next
           note == note_element(paths[r.at].data, r.at, cfg.tags, cfg.import_tags)
       IN  /\ pos' = r.at
           /\ pending' = 0
           /\ taken' = IF r.kind = "item" /\ pending = 0 THEN taken + 1 ELSE taken
           /\ chunks' = IF r.kind = "item" /\ pending = 0
                        THEN [chunks EXCEPT ![Len(chunks)] = Append(@, r.at)]
                        ELSE chunks
           /\ root' = IF r.kind = "item" /\ note.parsed THEN Append(root, note) ELSE root
           /\ docs' = IF r.kind = "stop" THEN Append(docs, root) ELSE docs
           /\ error' = IF r.kind = "raise" THEN "read" ELSE error
           /\ pc' = IF r.kind = "item" THEN "render"
                    ELSE IF r.kind = "stop" THEN "preamble" ELSE "close"
    /\ UNCHANGED <<paths, cfg, count, target, fs, brokenAt>>

\* out.write(...) twice: outside the try of build_enex
write_preamble ==
    /\ pc = "preamble"
    /\ \E o \in preamble_outcomes :
        /\ fs' = with_preamble(fs, target, count, o.delivered)
        /\ brokenAt' = IF o.raised /\ brokenAt < 0 THEN count ELSE brokenAt
        /\ error' = IF o.raised THEN "pipe" ELSE error
        /\ pc' = IF o.raised THEN "close" ELSE "tree"
    /\ UNCHANGED <<paths, cfg, pos, count, taken, pending, root, target, docs, chunks>>

\* document.write(out, ...) with BrokenPipeError passed over
write_document ==
    /\ pc = "tree"
    /\ \E o \in tree_outcomes :
        /\ fs' = with_tree(fs, target, count, o, root)
        /\ brokenAt' = IF o # "full" /\ brokenAt < 0 THEN count ELSE brokenAt
    /\ pc' = "close"
    /\ UNCHANGED <<paths, cfg, pos, count, taken, pending, root, target, error, docs, chunks>>

\* finally: if target is not sys.stdout: target.close(); then the next pass of the
\* loop, or the exception leaves convert
close_target ==
    /\ pc = "close"
    /\ fs' = IF target # STDOUT THEN closed(fs, target) ELSE fs
    /\ pc' = IF error = "none" THEN "batch" ELSE "failed"
    /\ count' = IF error = "none" THEN count + 1 ELSE count
    /\ taken' = IF error = "none" THEN 0 ELSE taken
    /\ UNCHANGED <<paths, cfg, pos, pending, root, target, brokenAt, error, docs, chunks>>

Next ==
    \/ batch
    \/ open_target
    \/ build_enex_loop
    \/ write_preamble
    \/ write_document
    \/ close_target

----------------------------------------------------------------------------
(* The runs checked *)

\* The default of convert's tags argument as main passes it: [TAG_IMPORT_NAME]
TAGS == <<"keep-import">>

SeqsUpTo(S, n) == UNION {[1..k -> S] : k \in 0..n}

Note(title, text, list, annotations, labels, pinned, archived, usec) ==
    [ title |-> title, textContent |-> text, listContent |-> list,
      annotations |-> annotations, labels |-> labels,
      isPinned |-> pinned, isArchived |-> archived, userEditedTimestampUsec |-> usec ]

TextNote(text, pinned) == Note(<<>>, text, <<>>, <<>>, <<>>, pinned, FALSE, 0)

File(data) == [readable |-> TRUE, data |-> data]

\* A file json.load cannot read.
Unreadable == [readable |-> FALSE, data |-> TextNote(<<>>, FALSE)]

Config(only_pinned, ignore_pinned, only_archived, ignore_archive, only_tagged, max_size, dest, pipe) ==
    [ only_pinned |-> only_pinned, ignore_pinned |-> ignore_pinned,
      only_archived |-> only_archived, ignore_archive |-> ignore_archive,
      only_tagged |-> only_tagged, tags |-> TAGS, import_tags |-> TRUE,
      max_size |-> max_size, dest |-> dest, pipe |-> pipe ]

NoTagged == [given |-> FALSE, names |-> {}]

\* The state convert starts in.
Start ==
    /\ pos = 0
    /\ pc = "batch"
    /\ count = 0
    /\ taken = 0
    /\ pending = 0
    /\ root = <<>>
    /\ target = STDOUT
    /\ fs = (STDOUT :> NoFile)
    /\ brokenAt = -1
    /\ error = "none"
    /\ docs = <<>>
    /\ chunks = <<>>

MaxNotes == 4
MaxSize == 3

\* The input files of the runs of Spec: pinned notes whose content parses or does
\* not, a note the filter drops, a file that cannot be read.
PipelineFiles ==
    { File(TextNote(<<"a">>, TRUE)), File(TextNote(<<"a", "\f", "b">>, TRUE)),
      File(TextNote(<<"a">>, FALSE)), Unreadable }

\* convert with --only-pinned, to each kind of destination, stdout being a pipe.
Init ==
    /\ paths \in SeqsUpTo(PipelineFiles, MaxNotes)
    /\ cfg \in { Config(TRUE, FALSE, FALSE, FALSE, NoTagged, size, dest, TRUE) :
                    size \in 1..MaxSize, dest \in {"-", "dir", "file"} }
    /\ Start

Spec == Init /\ [][Next]_vars

\* convert without a filter, one note to a batch, to a stdout that is no pipe.
PlainConfig == Config(FALSE, FALSE, FALSE, FALSE, NoTagged, 1, "-", FALSE)

MaxTextLen == 2
MaxAnnotations == 2
MaxItems == 2

Annotation(title, description, url) ==
    [title |-> title, description |-> description, url |-> url]

Item(text, checked) == [text |-> text, isChecked |-> checked]

\* Notes for the derivation of the title: an explicit title or none, body texts
\* that are empty, blank, of one or several lines, or a URL, a checklist or none,
\* up to MaxAnnotations annotations with and without a title.
TitleNotes ==
    { Note(title, text, list, annotations, <<>>, FALSE, FALSE, 0) :
        title \in {<<>>, <<"t">>},
        text \in SeqsUpTo({"a", " ", "\n"}, MaxTextLen) \cup {HTTP, HTTP \o <<" ", "a">>},
        list \in {<<>>, <<Item(<<"x">>, FALSE)>>},
        annotations \in SeqsUpTo({ Annotation(t, <<>>, u) : t \in {<<>>, <<"b">>},
                                                            u \in {<<>>, <<"a">>} },
                                 MaxAnnotations) }

\* Notes for the reminder markers: checklists of up to MaxItems items, checked or
\* not, with several edit times, the body text parsing or not.
ReminderNotes ==
    { Note(<<>>, text, list, <<>>, <<>>, FALSE, FALSE, usec) :
        text \in {<<>>, <<"a">>, <<"a", "\f", "b">>},
        list \in SeqsUpTo({ Item(t, c) : t \in {<<>>, <<"x">>}, c \in BOOLEAN }, MaxItems),
        usec \in {0, 1500000, 61000000} }

\* convert of one input file.
InitNote ==
    /\ paths \in { <<File(data)>> : data \in TitleNotes \cup ReminderNotes }
    /\ cfg = PlainConfig
    /\ Start

SpecNote == InitNote /\ [][Next]_vars

DedupTextLen == 3

\* Notes for the deduplication: body texts of up to DedupTextLen characters, one
\* or two lines, with and without "&", up to two annotations whose url is such a
\* text or empty, a checklist or none.
DedupNotes ==
    { Note(<<>>, text, list, annotations, <<>>, FALSE, FALSE, 0) :
        text \in SeqsUpTo({"a", "\n", "&"}, DedupTextLen),
        list \in {<<>>, <<Item(<<"x">>, FALSE)>>},
        annotations \in SeqsUpTo({ Annotation(t, <<>>, u) : t \in {<<>>, <<"b">>},
                                                            u \in {<<>>, <<"a">>, <<"&">>} },
                                 2) }

InitDedup ==
    /\ paths \in { <<File(data)>> : data \in DedupNotes }
    /\ cfg = PlainConfig
    /\ Start

SpecDedup == InitDedup /\ [][Next]_vars

MaxLineLen == 83

\* A line of n characters with a space at the positions in at.
Line(n, at) == [i \in 1..n |-> IF i \in at THEN " " ELSE "a"]

\* Body texts for the truncation of the title: a first line of TITLE_CUT - 2 to
\* MaxLineLen characters with no space, one space anywhere, or that space and one
\* at the second position, alone or followed by a second line.
LongTexts ==
    { Line(n, {p, q} \ {0}) \o rest :
        n \in (TITLE_CUT - 2)..MaxLineLen, q \in 0..MaxLineLen, p \in {0, 2},
        rest \in {<<>>, <<"\n", "b">>} }

InitTitle ==
    /\ paths \in { <<File(TextNote(text, FALSE))>> : text \in LongTexts }
    /\ cfg = PlainConfig
    /\ Start

SpecTitle == InitTitle /\ [][Next]_vars

MaxLabels == 2

Names == {"x", "X"}

\* The only_tagged argument: None, or a list of names (an empty one too).
AllowLists == {NoTagged} \cup { [given |-> TRUE, names |-> S] : S \in SUBSET Names }

FilterConfigs ==
    { Config(op, ip, oa, ia, ot, MaxSize, "-", FALSE) :
        op \in BOOLEAN, ip \in BOOLEAN, oa \in BOOLEAN, ia \in BOOLEAN, ot \in AllowLists }

LabelNote(labels, pinned, archived) ==
    Note(<<>>, <<"a">>, <<>>, <<>>, labels, pinned, archived, 0)

\* Streams for the filter: one note of any pinned and archived state with up to
\* MaxLabels labels, or up to MaxNotes notes out of three kinds.
FilterStreams ==
    { <<File(LabelNote(labels, pinned, archived))>> :
        labels \in SeqsUpTo(Names, MaxLabels), pinned \in BOOLEAN, archived \in BOOLEAN }
    \cup SeqsUpTo({ File(LabelNote(<<"x">>, TRUE, FALSE)),
                    File(LabelNote(<<"x">>, FALSE, TRUE)),
                    File(LabelNote(<<>>, TRUE, FALSE)) }, MaxNotes)

InitFilter ==
    /\ paths \in FilterStreams
    /\ cfg \in FilterConfigs
    /\ Start

SpecFilter == InitFilter /\ [][Next]_vars

----------------------------------------------------------------------------
(* What the claims speak of *)

RECURSIVE Flatten(_)
Flatten(ss) == IF ss = <<>> THEN <<>> ELSE Head(ss) \o Flatten(Tail(ss))

\* The input files the notes of a document came from, in the document's order.
DocFiles(doc) == [i \in DOMAIN doc |-> doc[i].takeout_file]

\* The indices of the input files whose records the filter lets through.
Filtered ==
    SelectSeq([i \in 1..Len(paths) |-> i],
              LAMBDA i : paths[i].readable /\ filter_keeps(paths[i].data, cfg))

\* Whether the merged content of the record of input file i parses.
Parses(i) ==
    content_parses(note_element(paths[i].data, i, cfg.tags, cfg.import_tags).content)

CeilDiv(m, n) == (m + n - 1) \div n

----------------------------------------------------------------------------
(* C2 *)

\* C2 as stated: once convert has returned, it has built ceil(M/N) documents for
\* the M filtered notes and batch size N, none holds more than N notes, and the
\* notes of the documents, in the order the documents were built, are the filtered
\* notes in their order.
C2_BatchingAsStated ==
    pc = "done" =>
        /\ Len(docs) = CeilDiv(Len(Filtered), cfg.max_size)
        /\ \A d \in DOMAIN docs : Len(docs[d]) <= cfg.max_size
        /\ Flatten([d \in DOMAIN docs |-> DocFiles(docs[d])]) = Filtered

\* C2 amended: once convert has returned, it has built ceil(M/N) documents, none
\* holds more than N notes, and the notes of the documents, in the order the
\* documents were built, are the filtered notes in their order without those
\* whose content did not parse.
C2_Batching ==
    pc = "done" =>
        /\ Len(docs) = CeilDiv(Len(Filtered), cfg.max_size)
        /\ \A d \in DOMAIN docs : Len(docs[d]) <= cfg.max_size
        /\ Flatten([d \in DOMAIN docs |-> DocFiles(docs[d])]) = SelectSeq(Filtered, Parses)

\* A run of three filtered notes in batches of two has returned: two documents,
\* the last one shorter.
C2_Witness ==
    /\ pc = "done"
    /\ Len(Filtered) = 3
    /\ cfg.max_size = 2
    /\ Len(docs) = 2
    /\ Len(docs[1]) = 2
    /\ Len(docs[2]) = 1

----------------------------------------------------------------------------
(* C4 *)

\* C4 as stated: for every kind of destination, no destination file is opened for
\* writing by more than one batch, a destination holds the document of one batch at
\* most, no two destinations are open at once, and none is open when the next batch
\* begins.
C4_DestinationDiscipline ==
    /\ \A name \in DOMAIN fs :
          name # STDOUT => Cardinality(fs[name].writers) <= 1 /\ Len(fs[name].text) <= 1
    /\ Cardinality({name \in DOMAIN fs : fs[name].open}) <= 1
    /\ pc \in {"batch", "open", "done"} => \A name \in DOMAIN fs : ~fs[name].open

----------------------------------------------------------------------------
(* C5 *)

\* C5 as stated: once the pipe has broken while a batch's document was written, no
\* BrokenPipeError leaves convert, and no later batch is rendered or written.
C5_QuietStop ==
    brokenAt >= 0 =>
        /\ error # "pipe"
        /\ count > brokenAt => pc \in {"batch", "done", "failed"}
        /\ Len(docs) <= brokenAt + 1

----------------------------------------------------------------------------
(* C6 *)

\* C6: the note children of every document are the notes of its batch whose content
\* parsed, in the batch's order, a note whose content did not parse being nowhere in
\* it; a document that reached its destination whole holds those children; and
\* once convert has returned, every batch has its document and every filtered note
\* is in a batch.
C6_FaultIsolation ==
    /\ \A d \in DOMAIN docs :
          /\ DocFiles(docs[d]) = SelectSeq(chunks[d], Parses)
          /\ \A i \in DOMAIN docs[d] : docs[d][i].parsed
    /\ \A name \in DOMAIN fs : \A t \in DOMAIN fs[name].text :
          fs[name].text[t].tree = "full" =>
              fs[name].text[t].notes = docs[fs[name].text[t].batch + 1]
    /\ pc = "done" => Len(docs) = Len(chunks) /\ Flatten(chunks) = Filtered

\* A run has returned in which a note was dropped from a batch another note of
\* which was emitted, and a later batch got its document.
C6_Witness ==
    /\ pc = "done"
    /\ Len(docs) >= 2
    /\ Len(chunks[1]) = 2
    /\ Len(docs[1]) = 1
    /\ Len(docs[2]) = 1

----------------------------------------------------------------------------
(* C10 *)

\* C10 as stated: a destination holds text of a batch only once every record of the
\* batch has been pulled and rendered; when a read of an input file has ended the
\* run, every document a destination holds is whole; and if the record that could
\* not be read was to be the first of its batch, no destination was opened for
\* that batch.
C10_NoPartialDocument ==
    /\ \A name \in DOMAIN fs : \A t \in DOMAIN fs[name].text :
          fs[name].text[t].batch < Len(docs)
    /\ pc = "failed" /\ error = "read" =>
          \A name \in DOMAIN fs : \A t \in DOMAIN fs[name].text :
              fs[name].text[t].preamble = PREAMBLE /\ fs[name].text[t].tree = "full"
    /\ pc = "failed" /\ error = "read" /\ taken = 0 =>
          \A name \in DOMAIN fs : count \notin fs[name].writers

----------------------------------------------------------------------------
(* The notes of the documents *)

\* The notes that are children of a document built so far, each with the record
\* it was rendered from.
Emitted ==
    UNION { { [note |-> docs[d][i], data |-> paths[docs[d][i].takeout_file].data] :
                i \in DOMAIN docs[d] } : d \in DOMAIN docs }

----------------------------------------------------------------------------
(* C1 *)

\* C1 as stated: the title of every note that has a non-empty body text, a
\* checklist item, or an annotation with a non-empty title, is not empty.
C1_TitleNonEmptyAsStated ==
    \A e \in Emitted :
        (\/ e.data.textContent # <<>>
         \/ e.data.listContent # <<>>
         \/ \E a \in DOMAIN e.data.annotations : e.data.annotations[a].title # <<>>)
        => e.note.title # <<>>

\* C1 amended: the title of every note whose body text is not empty once the
\* whitespace around it is stripped, or whose only annotation has a non-empty
\* title, is not empty.
C1_TitleNonEmpty ==
    \A e \in Emitted :
        (\/ strip(e.data.textContent, Whitespace) # <<>>
         \/ Len(e.data.annotations) = 1 /\ e.data.annotations[1].title # <<>>)
        => e.note.title # <<>>

\* A note with no explicit title and a blank body text got the title of its only
\* annotation.
C1_Witness ==
    \E e \in Emitted :
        /\ e.data.title = <<>>
        /\ e.data.textContent = <<" ">>
        /\ Len(e.data.annotations) = 1
        /\ e.note.title = <<"b">>

----------------------------------------------------------------------------
(* C3 *)

\* The checklist of the record as the content holds it, its body text left out.
ListBlock(data) == text_with_list([data EXCEPT !.textContent = <<>>])

\* C3 as stated: when the only annotation's url is the body text, or the body
\* text is the title, a newline and that url, the content is the checklist and
\* the annotation blocks with no body text; with no annotation or several, the
\* body text stays in the content.
C3_DedupLaw ==
    \A e \in Emitted :
        LET body == strip(e.data.textContent, Whitespace)
            blocks == annotations_markdown(e.data.annotations)
        IN  /\ (/\ Len(e.data.annotations) = 1
                /\ \/ body = e.data.annotations[1].url
                   \/ body = e.note.title \o <<"\n">> \o e.data.annotations[1].url)
               => e.note.content = merge_content(ListBlock(e.data), blocks)
            /\ Len(e.data.annotations) # 1
               => e.note.content = merge_content(text_with_list(e.data), blocks)

----------------------------------------------------------------------------
(* C7 *)

\* C7: an emitted note has the reminder-order marker exactly when its record has a
\* checklist item; it has the reminder-done-time marker exactly when its record
\* has a checklist item and every item is checked, and the marker then holds the
\* note's updated timestamp, which is the record's edit time.
C7_ChecklistReminder ==
    \A e \in Emitted :
        LET items == e.data.listContent
            done == items # <<>> /\ \A i \in DOMAIN items : items[i].isChecked
        IN  /\ e.note.reminder_order <=> items # <<>>
            /\ e.note.reminder_done_time # <<>> <=> done
            /\ done => /\ e.note.reminder_done_time = <<e.note.updated>>
                       /\ e.note.updated = enex_datetime(e.data.userEditedTimestampUsec)

\* A note with two items, both checked, edited after the epoch, has the marker.
C7_Witness ==
    \E e \in Emitted :
        /\ Len(e.data.listContent) = 2
        /\ e.data.userEditedTimestampUsec = 61000000
        /\ e.note.reminder_order
        /\ e.note.reminder_done_time = <<<<0, 0, 1, 1>>>>

----------------------------------------------------------------------------
(* C8 *)

\* The first line of the stripped body text of the record.
FirstLine(data) == first_line(strip(data.textContent, Whitespace))

\* The positions of a space among the first 79 characters of the line.
SpacesInSlice(line) == {i \in 1..Min(79, Len(line)) : line[i] = " "}

\* C8: the title of a note with no explicit title (and no annotation) is the
\* first line L of its stripped body text when L has at most 80 characters;
\* otherwise it is P, a space and the ellipsis, P being L up to the last space
\* among its first 79 characters, or the first 78 characters of L when there is
\* no space among them.
C8_TitleTruncation ==
    \A e \in Emitted :
        e.data.title = <<>> /\ e.data.annotations = <<>> =>
            LET L == FirstLine(e.data)
                at == SpacesInSlice(L)
                P == IF at = {} THEN SubSeq(L, 1, 78)
                     ELSE SubSeq(L, 1, (CHOOSE i \in at : \A j \in at : j <= i) - 1)
            IN  IF Len(L) <= 80 THEN e.note.title = L
                ELSE e.note.title = P \o <<" ", Ellipsis>>

\* A first line of more than 80 characters with spaces at 2 and 60 was cut before
\* the space at 60.
C8_Witness ==
    \E e \in Emitted :
        /\ Len(FirstLine(e.data)) > 80
        /\ SpacesInSlice(FirstLine(e.data)) = {2, 60}
        /\ Len(e.note.title) = 61
        /\ e.note.title[61] = Ellipsis

----------------------------------------------------------------------------
(* C9 *)

\* The records the filtered stream has yielded so far, in the order it did.
Yielded == Flatten(chunks)

\* The indices of the input files stream_json has consumed.
Consumed == [i \in 1..pos |-> i]

\* The predicates of the claim, the allowlist one applying when `supplied`.
Satisfies(data, supplied) ==
    /\ cfg.only_pinned => data.isPinned
    /\ cfg.ignore_pinned => ~data.isPinned
    /\ cfg.only_archived => data.isArchived
    /\ cfg.ignore_archive => ~data.isArchived
    /\ supplied => \E i \in DOMAIN data.labels : data.labels[i] \in cfg.only_tagged.names

\* C9 as stated: the records yielded are, in stream order, the consumed records
\* that satisfy every active predicate, the allowlist being active whenever a list
\* of names is given.
C9_FilterAsStated ==
    Yielded = SelectSeq(Consumed,
                        LAMBDA i : Satisfies(paths[i].data, cfg.only_tagged.given))

\* C9 amended: the records yielded are, in stream order, the consumed records that
\* satisfy every active predicate, the allowlist being active whenever a non-empty
\* list of names is given (an empty list filters nothing).
C9_Filter ==
    Yielded = SelectSeq(Consumed,
                        LAMBDA i : Satisfies(paths[i].data,
                                             cfg.only_tagged.given
                                             /\ cfg.only_tagged.names # {}))

\* A run over three records with --only-pinned and an allowlist has returned, the
\* first and the third record yielded, the second dropped.
C9_Witness ==
    /\ pc = "done"
    /\ Len(paths) = 3
    /\ cfg.only_pinned
    /\ cfg.only_tagged.names = {"x"}
    /\ Yielded = <<1, 3>>

====
